---- MODULE Spec2Model ----
(***************************************************************************)
(* A model of the SpotifyJS client (index.ts): the credentials it stores,  *)
(* the default Authorization header of its axios instance, the token calls *)
(* (requestAccessToken, refreshAccessToken), the endpoint calls that go    *)
(* through _makeApiRequest, and the pure function generateAuthorizeUrl.    *)
(*                                                                         *)
(* JavaScript strings are sequences of character codes, so that string     *)
(* concatenation, sorting, form-urlencoding and base64 are computed, not   *)
(* assumed.  A value that may be undefined is an option: <<>> is undefined *)
(* and <<v>> is the value v.                                               *)
(***************************************************************************)
EXTENDS Integers, Sequences, FiniteSets, TLC

----------------------------------------------------------------------------
(* Bounds of the model *)

\* the number of caller tasks that share the one client
NumTasks == 2

----------------------------------------------------------------------------
(* JavaScript values *)

None == <<>>
Some(v) == <<v>>

\* string literals of the source, as character codes
StrAuthorizeUrl ==
    <<104,116,116,112,115,58,47,47,97,99,99,111,117,110,116,115,46,115,112,
      111,116,105,102,121,46,99,111,109,47,97,117,116,104,111,114,105,122,
      101,63>>                             \* "https://accounts.spotify.com/authorize?"
StrClientId == <<99,108,105,101,110,116,95,105,100>>                  \* "client_id"
StrResponseType == <<114,101,115,112,111,110,115,101,95,116,121,112,101>> \* "response_type"
StrRedirectUri == <<114,101,100,105,114,101,99,116,95,117,114,105>>   \* "redirect_uri"
StrState == <<115,116,97,116,101>>                                    \* "state"
StrScope == <<115,99,111,112,101>>                                    \* "scope"
StrShowDialog == <<115,104,111,119,95,100,105,97,108,111,103>>        \* "show_dialog"
StrCode == <<99,111,100,101>>                                         \* "code"
StrTrue == <<116,114,117,101>>                                        \* "true"
StrFalse == <<102,97,108,115,101>>                                    \* "false"
StrBearer == <<66,101,97,114,101,114,32>>                             \* "Bearer "
StrBasic == <<66,97,115,105,99,32>>                                   \* "Basic "
StrColon == <<58>>                                                    \* ":"
StrUndefined == <<117,110,100,101,102,105,110,101,100>>               \* "undefined"

\* `${x}` in a template literal: undefined prints as "undefined"
TemplateStr(opt) == IF opt = None THEN StrUndefined ELSE opt[1]

\* !x for a string | undefined: undefined and "" are falsy
FalsyStr(opt) == opt = None \/ opt[1] = <<>>

\* !x for a boolean | undefined: undefined and false are falsy
FalsyBool(opt) == opt = None \/ opt[1] = FALSE

----------------------------------------------------------------------------
(* URLSearchParams: a list of <<key, value>> pairs *)

RECURSIVE StrLess(_, _)
\* a < b comparing code units, as URLSearchParams.sort() compares keys
StrLess(a, b) ==
    IF b = <<>> THEN FALSE
    ELSE IF a = <<>> THEN TRUE
    ELSE IF a[1] # b[1] THEN a[1] < b[1]
    ELSE StrLess(Tail(a), Tail(b))

RECURSIVE InsertParam(_, _)
\* p put after every pair whose key is not greater than its own: a stable insertion
InsertParam(sorted, p) ==
    IF sorted = <<>> THEN <<p>>
    ELSE IF StrLess(p[1], sorted[1][1]) THEN <<p>> \o sorted
    ELSE <<sorted[1]>> \o InsertParam(Tail(sorted), p)

RECURSIVE SortParams(_)
\* URLSearchParams.sort(): a stable sort of the pairs by key
SortParams(ps) ==
    IF ps = <<>> THEN <<>>
    ELSE InsertParam(SortParams(SubSeq(ps, 1, Len(ps) - 1)), ps[Len(ps)])

\* the characters application/x-www-form-urlencoded leaves as they are:
\* A-Z a-z 0-9 * - . _
FormSafe(c) ==
    \/ c \in 65..90
    \/ c \in 97..122
    \/ c \in 48..57
    \/ c \in {42, 45, 46, 95}

\* an uppercase hexadecimal digit's character code
HexDigit(d) == IF d < 10 THEN 48 + d ELSE 55 + d

\* one character form-urlencoded: kept, a space as "+", anything else as %XX
FormEncodeChar(c) ==
    IF FormSafe(c) THEN <<c>>
    ELSE IF c = 32 THEN <<43>>
    ELSE <<37, HexDigit(c \div 16), HexDigit(c % 16)>>

RECURSIVE FormEncode(_)
FormEncode(s) ==
    IF s = <<>> THEN <<>> ELSE FormEncodeChar(s[1]) \o FormEncode(Tail(s))

RECURSIVE ParamsToString(_)
\* URLSearchParams.toString(): key=value pairs joined by "&"
ParamsToString(ps) ==
    IF ps = <<>> THEN <<>>
    ELSE FormEncode(ps[1][1]) \o <<61>> \o FormEncode(ps[1][2])
         \o (IF Len(ps) > 1 THEN <<38>> \o ParamsToString(Tail(ps)) ELSE <<>>)

----------------------------------------------------------------------------
(* base64 decoding: the global atob *)

\* ASCII whitespace, which atob removes before decoding
IsAsciiWhitespace(c) == c \in {9, 10, 12, 13, 32}

\* the base64 alphabet: A-Z a-z 0-9 + /
InBase64Alphabet(c) ==
    \/ c \in 65..90
    \/ c \in 97..122
    \/ c \in 48..57
    \/ c \in {43, 47}

\* a base64 character's 6-bit value
Base64Index(c) ==
    IF c \in 65..90 THEN c - 65
    ELSE IF c \in 97..122 THEN c - 71
    ELSE IF c \in 48..57 THEN c + 4
    ELSE IF c = 43 THEN 62
    ELSE 63

\* what atob decodes: the input without whitespace and without its "=" padding
AtobData(s) ==
    LET d == SelectSeq(s, LAMBDA c : ~IsAsciiWhitespace(c))
        n == Len(d)
    IN  IF n > 0 /\ n % 4 = 0 /\ d[n] = 61
        THEN IF d[n - 1] = 61 THEN SubSeq(d, 1, n - 2) ELSE SubSeq(d, 1, n - 1)
        ELSE d

\* atob throws InvalidCharacterError on a length of 1 mod 4 and on any character
\* outside the base64 alphabet
AtobThrows(s) ==
    LET d == AtobData(s)
    IN  \/ Len(d) % 4 = 1
        \/ \E i \in 1..Len(d) : ~InBase64Alphabet(d[i])

RECURSIVE Base64Decode(_)
\* 4 characters give 3 bytes; a rest of 2 gives 1 byte, a rest of 3 gives 2
Base64Decode(d) ==
    IF Len(d) >= 4 THEN
        LET n == Base64Index(d[1]) * 262144 + Base64Index(d[2]) * 4096
                 + Base64Index(d[3]) * 64 + Base64Index(d[4])
        IN  <<n \div 65536, (n \div 256) % 256, n % 256>>
            \o Base64Decode(SubSeq(d, 5, Len(d)))
    ELSE IF Len(d) = 3 THEN
        LET n == Base64Index(d[1]) * 4096 + Base64Index(d[2]) * 64 + Base64Index(d[3])
        IN  <<n \div 1024, (n \div 4) % 256>>
    ELSE IF Len(d) = 2 THEN
        LET n == Base64Index(d[1]) * 64 + Base64Index(d[2])
        IN  <<n \div 16>>
    ELSE <<>>

\* the outcome of evaluating an expression: a value, or an exception thrown
Returned(v) == [thrown |-> FALSE, value |-> v]
Thrown == [thrown |-> TRUE, value |-> <<>>]

\* the global atob(s): base64 DECODING of s
Atob(s) == IF AtobThrows(s) THEN Thrown ELSE Returned(Base64Decode(AtobData(s)))

\* `Basic ${atob(this.clientId + ":" + this.clientSecret)}`: the Authorization
\* header of a token request, or the exception atob throws
BasicAuthorization(id, secret) ==
    LET a == Atob(id \o StrColon \o TemplateStr(secret))
    IN  IF a.thrown THEN Thrown ELSE Returned(StrBasic \o a.value)

----------------------------------------------------------------------------
(* generateAuthorizeUrl *)

\* options?.state, options?.scope, options?.show_dialog
OptState(options) == IF options = None THEN None ELSE options[1].state
OptScope(options) == IF options = None THEN None ELSE options[1].scope
OptShowDialog(options) == IF options = None THEN None ELSE options[1].show_dialog

\* the URLSearchParams built before the sort
AuthorizeParams(id, uri, options) ==
    <<  <<StrClientId, id>>,
        <<StrResponseType, StrCode>>,
        <<StrRedirectUri, uri>> >>
    \o (IF ~FalsyStr(OptState(options))
        THEN << <<StrState, OptState(options)[1]>> >> ELSE <<>>)
    \o (IF ~FalsyStr(OptScope(options))
        THEN << <<StrScope, OptScope(options)[1]>> >> ELSE <<>>)
    \o (IF ~FalsyBool(OptShowDialog(options))
        THEN << <<StrShowDialog,
                  IF OptShowDialog(options)[1] THEN StrTrue ELSE StrFalse>> >>
        ELSE <<>>)

generateAuthorizeUrl(id, uri, options) ==
    StrAuthorizeUrl \o ParamsToString(SortParams(AuthorizeParams(id, uri, options)))

----------------------------------------------------------------------------
(* Inputs *)

StrTest == <<116,101,115,116>>      \* "test"
StrAb == <<97,98>>                  \* "ab"
StrCd == <<99,100>>                 \* "cd"
StrAColonB == <<97,58,98>>          \* "a:b"
StrASpaceB == <<97,32,98>>          \* "a b"
StrS == <<115>>                     \* "s"
StrT1 == <<116,49>>                 \* "t1"
StrT2 == <<116,50>>                 \* "t2"
StrR1 == <<114,49>>                 \* "r1"
StrR2 == <<114,50>>                 \* "r2"

Tasks == 1..NumTasks

\* access tokens and refresh tokens callers and the token endpoint supply
AccessTokens == {StrT1, StrT2}
RefreshTokens == {StrR1, StrR2}

\* config.clientSecret: absent, empty, or set
ClientSecrets == {None, Some(<<>>), Some(StrCd)}

\* config.autoRefreshToken: absent or true
AutoRefreshFlags == {None, Some(TRUE)}

\* the options of generateAuthorizeUrl: absent, or each field absent, falsy or set
AuthorizeOptions ==
    {None} \cup
    { Some([state |-> st, scope |-> sc, show_dialog |-> sd]) :
        st \in {None, Some(<<>>), Some(StrS)},
        sc \in {None, Some(<<>>), Some(StrASpaceB)},
        sd \in {None, Some(FALSE), Some(TRUE)} }

\* what _makeApiRequest's caller gets: the response body, or the caught error
\* (an error object has no access_token and no refresh_token)
DataValue(access, refresh) ==
    [error |-> FALSE, access_token |-> access, refresh_token |-> refresh]
ErrorValue == [error |-> TRUE, access_token |-> None, refresh_token |-> None]

\* what the transport has for a request: a response body, or a failure
OkReply(v) == [fail |-> FALSE, data |-> v]
FailReply == [fail |-> TRUE, data |-> ErrorValue]

\* an API endpoint answers with a body without tokens, or fails
ApiReplies == {FailReply, OkReply(DataValue(None, None))}

\* the token endpoint answers {access_token, refresh_token?}, or fails
TokenReplies ==
    {FailReply} \cup
    { OkReply(DataValue(Some(a), r)) : a \in AccessTokens, r \in {None, Some(StrR2)} }

----------------------------------------------------------------------------
(* State *)

VARIABLES
    clientId,           \* this.clientId
    clientSecret,       \* this.clientSecret (an option)
    redirectUri,        \* this.redirectUri
    autoRefreshToken,   \* this.autoRefreshToken (an option)
    accessToken,        \* this.accessToken (an option: undefined once assigned so)
    refreshToken,       \* this.refreshToken (an option)
    defaultAuth,        \* this._axiosInstance.defaults.headers["Authorization"]
    task,               \* per caller task: the call it has made on the client
    url,                \* what generateAuthorizeUrl last returned (an option)
    urlOptions          \* the options it was called with

config == <<clientId, clientSecret, redirectUri, autoRefreshToken>>
creds == <<accessToken, refreshToken, defaultAuth>>
urls == <<url, urlOptions>>
vars == <<config, creds, task, urls>>

\* a task that has no call in progress
Idle ==
    [pc |-> "idle", kind |-> "none", req |-> None, reply |-> FailReply,
     result |-> None, sends |-> 0, sentWith |-> None]

\* how a call ended, as its caller sees it
Resolved(v) == [how |-> "resolved", error |-> "none", value |-> v]
ResolvedError(name) == [how |-> "resolved", error |-> name, value |-> ErrorValue]
Rejected(name) == [how |-> "rejected", error |-> name, value |-> ErrorValue]
ThrownSync(name) == [how |-> "thrown", error |-> name, value |-> ErrorValue]

----------------------------------------------------------------------------
(* Construction *)

getAccessToken == accessToken
getRefreshToken == refreshToken

\* setAccessToken with the header assignment left out: the header keeps the
\* token it got at construction
setAccessTokenFieldOnly(token) ==
    /\ accessToken' = token
    /\ UNCHANGED defaultAuth

\* setAccessToken with the header built before the field is assigned: the
\* header gets the token the field held before the call
setAccessTokenStaleHeader(token) ==
    /\ accessToken' = token
    /\ defaultAuth' = StrBearer \o TemplateStr(accessToken)

\* setAccessToken(token): the field, then the default header from the field
setAccessToken(token) ==
    /\ accessToken' = token
    /\ defaultAuth' = StrBearer \o TemplateStr(token)

setRefreshToken(token) == refreshToken' = token

\* new SpotifyJS(config): fields from config, then setAccessToken(config.accessToken)
Constructed(id, secret, uri, auto, access, refresh) ==
    /\ clientId = id
    /\ clientSecret = secret
    /\ refreshToken = refresh
    /\ redirectUri = uri
    /\ autoRefreshToken = auto
    /\ accessToken = access
    /\ defaultAuth = StrBearer \o TemplateStr(access)

Init ==
    /\ \E secret \in ClientSecrets, auto \in AutoRefreshFlags,
          access \in AccessTokens, refresh \in {None, Some(StrR1)} :
            Constructed(StrAb, secret, StrTest, auto, Some(access), refresh)
    /\ task = [t \in Tasks |-> Idle]
    /\ url = None
    /\ urlOptions = None

----------------------------------------------------------------------------
(* _makeApiRequest and the transport *)

\* this._axiosInstance(config): the request axios sends, its headers merged when
\* it is sent: the call's own Authorization if it has one, else the default
AxiosRequest(target, headers) ==
    [target |-> target,
     authorization |-> IF headers = None THEN defaultAuth ELSE headers[1]]

\* _makeApiRequest up to its await: one request handed to the transport
Sent(kind, target, headers, reply) ==
    [pc |-> "inflight", kind |-> kind, req |-> Some(AxiosRequest(target, headers)),
     reply |-> reply, result |-> None, sends |-> 1, sentWith |-> accessToken]

\* _makeApiRequest without its catch: a transport failure rejects the call
makeApiRequestRethrows(reply) ==
    IF reply.fail THEN Rejected("TransportError") ELSE Resolved(reply.data)

\* _makeApiRequest after its await: the body on success, and on a failure the
\* caught error, returned
makeApiRequestOutcome(reply) ==
    IF reply.fail THEN ResolvedError("TransportError") ELSE Resolved(reply.data)

\* a call that is over: its result is the caller's
Done(rec, result) == [rec EXCEPT !.pc = "done", !.result = Some(result)]

\* an endpoint call that, with autoRefreshToken set, sends its request once
\* more after a failure, with the token then current
EndpointSettledRetry(rec, outcome) ==
    IF outcome.error # "none" /\ autoRefreshToken = Some(TRUE) /\ rec.sends < 2
    THEN [rec EXCEPT !.req = Some(AxiosRequest(rec.req[1].target, None)),
                     !.sends = rec.sends + 1,
                     !.sentWith = accessToken]
    ELSE Done(rec, outcome)

\* an endpoint method's call is over when _makeApiRequest is: no second request
EndpointSettled(rec, outcome) == Done(rec, outcome)

----------------------------------------------------------------------------
(* Operations *)

\* a caller calls setAccessToken(token)
SetAccessToken ==
    \E token \in AccessTokens :
        /\ setAccessToken(Some(token))
        /\ UNCHANGED <<config, refreshToken, task, urls>>

\* a caller calls setRefreshToken(token)
SetRefreshToken ==
    \E token \in RefreshTokens \cup {<<>>} :
        /\ setRefreshToken(Some(token))
        /\ UNCHANGED <<config, accessToken, defaultAuth, task, urls>>

\* a task calls an endpoint method (getAlbum, search, ...): each hands one
\* request to _makeApiRequest, with no headers of its own
CallEndpoint(t) ==
    /\ task[t].pc = "idle"
    /\ \E reply \in ApiReplies :
        task' = [task EXCEPT ![t] = Sent("endpoint", "api", None, reply)]
    /\ UNCHANGED <<config, creds, urls>>

\* the guard of requestAccessToken
RequestMissingCredential == FalsyStr(clientSecret)

\* refreshAccessToken with its second guard left out
RefreshMissingCredentialSecretOnly == FalsyStr(clientSecret)

\* the guards of refreshAccessToken
RefreshMissingCredential == FalsyStr(clientSecret) \/ FalsyStr(refreshToken)

\* a task calls requestAccessToken({code}): an async function, so its throw is a
\* rejection; the request's headers are evaluated inside its try
RequestAccessToken(t) ==
    /\ task[t].pc = "idle"
    /\ \E reply \in TokenReplies :
        LET called == [Idle EXCEPT !.kind = "requestAccessToken", !.reply = reply]
            basic == BasicAuthorization(clientId, clientSecret)
        IN  task' = [task EXCEPT ![t] =
                IF RequestMissingCredential
                THEN Done(called, Rejected("ConfigurationError"))
                ELSE IF basic.thrown
                THEN Done(called, ResolvedError("InvalidCharacterError"))
                ELSE Sent("requestAccessToken", "token", Some(basic.value), reply)]
    /\ UNCHANGED <<config, creds, urls>>

\* a task calls refreshAccessToken(): not async, so its throws are synchronous
RefreshAccessToken(t) ==
    /\ task[t].pc = "idle"
    /\ \E reply \in TokenReplies :
        LET called == [Idle EXCEPT !.kind = "refreshAccessToken", !.reply = reply]
            basic == BasicAuthorization(clientId, clientSecret)
        IN  task' = [task EXCEPT ![t] =
                IF RefreshMissingCredential
                THEN Done(called, ThrownSync("ConfigurationError"))
                ELSE IF basic.thrown
                THEN Done(called, ThrownSync("InvalidCharacterError"))
                ELSE Sent("refreshAccessToken", "token", Some(basic.value), reply)]
    /\ UNCHANGED <<config, creds, urls>>

\* the transport settles a task's request and the awaiting code runs on:
\* an endpoint method and refreshAccessToken return what _makeApiRequest returns;
\* requestAccessToken stores response.access_token and response.refresh_token
Settle(t) ==
    /\ task[t].pc = "inflight"
    /\ LET outcome == makeApiRequestOutcome(task[t].reply)
       IN  IF task[t].kind = "requestAccessToken"
           THEN IF outcome.how = "resolved"
                THEN /\ setAccessToken(outcome.value.access_token)
                     /\ setRefreshToken(outcome.value.refresh_token)
                     /\ task' = [task EXCEPT ![t] = Done(task[t], outcome)]
                ELSE /\ task' = [task EXCEPT ![t] =
                            Done(task[t], ResolvedError(outcome.error))]
                     /\ UNCHANGED creds
           ELSE /\ task' = [task EXCEPT ![t] = EndpointSettled(task[t], outcome)]
                /\ UNCHANGED creds
    /\ UNCHANGED <<config, urls>>

\* the caller has taken a finished call's result; the task may call again
Return(t) ==
    /\ task[t].pc = "done"
    /\ task' = [task EXCEPT ![t] = Idle]
    /\ UNCHANGED <<config, creds, urls>>

\* a caller calls generateAuthorizeUrl(options)
GenerateAuthorizeUrl ==
    \E options \in AuthorizeOptions :
        /\ url' = Some(generateAuthorizeUrl(clientId, redirectUri, options))
        /\ urlOptions' = options
        /\ UNCHANGED <<config, creds, task>>

Next ==
    \/ SetAccessToken
    \/ SetRefreshToken
    \/ \E t \in Tasks : CallEndpoint(t)
    \/ \E t \in Tasks : RequestAccessToken(t)
    \/ \E t \in Tasks : RefreshAccessToken(t)
    \/ \E t \in Tasks : Settle(t)
    \/ \E t \in Tasks : Return(t)

Spec == Init /\ [][Next]_vars

\* generateAuthorizeUrl alone, over the client ids and redirect URIs
InitUrl ==
    /\ \E id \in {StrTest, StrAb}, uri \in {StrTest, StrAColonB, StrASpaceB} :
            Constructed(id, None, uri, None, Some(StrT1), None)
    /\ task = [t \in Tasks |-> Idle]
    /\ url = None
    /\ urlOptions = None

NextUrl == GenerateAuthorizeUrl

SpecUrl == InitUrl /\ [][NextUrl]_vars

----------------------------------------------------------------------------
(* Properties *)

(* base64 encoding, which HTTP Basic authentication asks for *)

\* a 6-bit value's base64 character
Base64Char(i) ==
    IF i < 26 THEN 65 + i
    ELSE IF i < 52 THEN 71 + i
    ELSE IF i < 62 THEN i - 4
    ELSE IF i = 62 THEN 43
    ELSE 47

RECURSIVE Btoa(_)
\* the global btoa(s): base64 ENCODING of s, 3 bytes to 4 characters, "=" padded
Btoa(s) ==
    IF Len(s) >= 3 THEN
        LET n == s[1] * 65536 + s[2] * 256 + s[3]
        IN  <<Base64Char(n \div 262144), Base64Char((n \div 4096) % 64),
              Base64Char((n \div 64) % 64), Base64Char(n % 64)>>
            \o Btoa(SubSeq(s, 4, Len(s)))
    ELSE IF Len(s) = 2 THEN
        LET n == s[1] * 1024 + s[2] * 4
        IN  <<Base64Char(n \div 4096), Base64Char((n \div 64) % 64),
              Base64Char(n % 64), 61>>
    ELSE IF Len(s) = 1 THEN
        LET n == s[1] * 16
        IN  <<Base64Char(n \div 64), Base64Char(n % 64), 61, 61>>
    ELSE <<>>

\* the header setAccessToken leaves for a token
Bearer(token) == StrBearer \o TemplateStr(token)

\* task t has a call of this kind that is over
Finished(t, kind) == task[t].pc = "done" /\ task[t].kind = kind

\* C1: in every reachable state the default Authorization header is "Bearer "
\* followed by what getAccessToken() returns, and an endpoint request carries
\* the header of the access token current in the state it is sent from.
C1_BearerIsCurrentToken ==
    /\ [](defaultAuth = Bearer(getAccessToken))
    /\ [][\A t \in Tasks :
            (task[t].pc = "idle" /\ task'[t].kind = "endpoint")
            => task'[t].req = Some([target |-> "api",
                                    authorization |-> Bearer(getAccessToken)])]_vars

\* C1 witness: two requests in flight with different bearer headers, the later
\* one carrying the token a setAccessToken call installed in between.
C1_Witness ==
    \E t, u \in Tasks :
        /\ task[t].pc = "inflight" /\ task[u].pc = "inflight"
        /\ task[t].req[1].authorization # task[u].req[1].authorization
        /\ task[u].req[1].authorization = Bearer(getAccessToken)

\* C2 (as claimed): a refreshAccessToken call made with clientSecret and
\* refreshToken set, to a transport that answers with a token response, ends
\* with accessToken the response's access token, refreshToken the response's
\* refresh token if it has one and else unchanged, and the header of the new token.
C2_RefreshStoresTokens ==
    [][\A t \in Tasks :
        (/\ task[t].pc # "done" /\ task'[t].pc = "done"
         /\ task'[t].kind = "refreshAccessToken"
         /\ ~RefreshMissingCredential
         /\ ~task'[t].reply.fail)
        => /\ accessToken' = task'[t].reply.data.access_token
           /\ refreshToken' = IF task'[t].reply.data.refresh_token = None
                              THEN refreshToken
                              ELSE task'[t].reply.data.refresh_token
           /\ defaultAuth' = Bearer(task'[t].reply.data.access_token)]_vars

\* C4 (as claimed): a requestAccessToken call made with clientSecret set, to a
\* transport that answers {access_token, refresh_token}, ends with
\* getAccessToken() and getRefreshToken() the response's two values and with
\* the default header of the new access token.
C4_ExchangeStoresTokens ==
    [][\A t \in Tasks :
        (/\ task[t].pc # "done" /\ task'[t].pc = "done"
         /\ task'[t].kind = "requestAccessToken"
         /\ ~RequestMissingCredential
         /\ ~task'[t].reply.fail)
        => /\ accessToken' = task'[t].reply.data.access_token
           /\ refreshToken' = task'[t].reply.data.refresh_token
           /\ defaultAuth' = Bearer(task'[t].reply.data.access_token)]_vars

\* C5: a token call whose required credential is missing (requestAccessToken
\* without clientSecret, refreshAccessToken without clientSecret or without
\* refreshToken) fails with a configuration error, hands no request to the
\* transport, and leaves accessToken and refreshToken as they were.
C5_MissingCredentialFailsFirst ==
    [][\A t \in Tasks :
        (/\ task[t].pc = "idle" /\ task'[t].pc # "idle"
         /\ \/ task'[t].kind = "requestAccessToken" /\ FalsyStr(clientSecret)
            \/ /\ task'[t].kind = "refreshAccessToken"
               /\ (FalsyStr(clientSecret) \/ FalsyStr(refreshToken)))
        => /\ task'[t].pc = "done"
           /\ task'[t].result[1].how \in {"rejected", "thrown"}
           /\ task'[t].result[1].error = "ConfigurationError"
           /\ task'[t].sends = 0
           /\ task'[t].req = None
           /\ UNCHANGED <<accessToken, refreshToken>>]_vars

\* C5 witness: with no clientSecret, one task's requestAccessToken and another's
\* refreshAccessToken have both failed with a configuration error.
C5_Witness ==
    /\ FalsyStr(clientSecret)
    /\ \E t, u \in Tasks :
        /\ Finished(t, "requestAccessToken") /\ Finished(u, "refreshAccessToken")
        /\ task[t].result[1].error = "ConfigurationError"
        /\ task[u].result[1].error = "ConfigurationError"
        /\ task[t].sends = 0 /\ task[u].sends = 0

ExpectedAuthorizeUrl(id, uri, options) ==
    StrAuthorizeUrl
    \o StrClientId \o <<61>> \o FormEncode(id)
    \o <<38>> \o StrRedirectUri \o <<61>> \o FormEncode(uri)
    \o <<38>> \o StrResponseType \o <<61>> \o StrCode
    \o (IF OptScope(options) # None
        THEN <<38>> \o StrScope \o <<61>> \o FormEncode(OptScope(options)[1])
        ELSE <<>>)
    \o (IF OptShowDialog(options) # None
        THEN <<38>> \o StrShowDialog \o <<61>>
             \o (IF OptShowDialog(options)[1] THEN StrTrue ELSE StrFalse)
        ELSE <<>>)
    \o (IF OptState(options) # None
        THEN <<38>> \o StrState \o <<61>> \o FormEncode(OptState(options)[1])
        ELSE <<>>)

\* C7 (as claimed): generateAuthorizeUrl returns the authorize endpoint and the
\* query keys in sorted order: client_id, redirect_uri and response_type=code
\* always, and scope, show_dialog and state each exactly when it was supplied.
C7_AuthorizeUrlHasSuppliedOptions ==
    url # None => url[1] = ExpectedAuthorizeUrl(clientId, redirectUri, urlOptions)

\* C8 (as claimed): a token call made with its credentials set sends the token
\* endpoint a request whose Authorization is "Basic " followed by the base64
\* encoding of clientId ":" clientSecret.
C8_TokenRequestIsBasicBase64 ==
    [][\A t \in Tasks :
        (/\ task[t].pc = "idle" /\ task'[t].pc # "idle"
         /\ \/ task'[t].kind = "requestAccessToken" /\ ~RequestMissingCredential
            \/ task'[t].kind = "refreshAccessToken" /\ ~RefreshMissingCredential)
        => task'[t].req =
             Some([target |-> "token",
                   authorization |->
                     StrBasic \o Btoa(clientId \o StrColon \o clientSecret[1])])]_vars

\* C9: an endpoint call hands the transport exactly one request, carrying the
\* access token current when it was sent; nothing that happens while it is in
\* flight (setAccessToken, a token call, its own failure, with autoRefreshToken
\* set or not) changes that request or sends another.
C9_OneRequestWithTokenAtSend ==
    /\ [](\A t \in Tasks :
            (task[t].kind = "endpoint" /\ task[t].pc \in {"inflight", "done"})
            => /\ task[t].sends = 1
               /\ task[t].req = Some([target |-> "api",
                                      authorization |-> Bearer(task[t].sentWith)]))
    /\ [][\A t \in Tasks :
            task[t].pc = "inflight"
            => /\ task'[t].pc \in {"inflight", "done"}
               /\ task'[t].req = task[t].req
               /\ task'[t].sends = task[t].sends]_vars

\* C9 witness: with autoRefreshToken set, an endpoint call has failed after the
\* access token was replaced while it was in flight, it made one request, with
\* the old token, and another task's later request carries the new token.
C9_Witness ==
    /\ autoRefreshToken = Some(TRUE)
    /\ \E t, u \in Tasks :
        /\ Finished(t, "endpoint") /\ task[t].reply.fail /\ task[t].sends = 1
        /\ task[t].sentWith # accessToken
        /\ task[u].kind = "endpoint" /\ task[u].pc = "inflight"
        /\ task[u].sentWith = accessToken
        /\ task[u].req[1].authorization # task[t].req[1].authorization

====
